---- MODULE Spec2Model ----
(***************************************************************************)
(* The IP subnet game: src/src/App.svelte (the quiz session) and its       *)
(* helper module ./utils/ipUtils.js (src/unnamed/part_000, the address     *)
(* codec, subnet evaluator and generators).                                *)
(*                                                                         *)
(* Data representation.                                                    *)
(*   - A JavaScript string is a sequence of one-character strings, so that *)
(*     split, trim, parseInt and toString are computed and not assumed.    *)
(*   - The result of parseInt is <<>> for NaN and <<n>> for the number n.  *)
(*   - A JavaScript number that takes part in 32-bit arithmetic is a pair  *)
(*     <<hi, lo>> standing for hi * 2^16 + lo with lo in 0..65535; an      *)
(*     int32 has hi in -32768..32767, a uint32 has hi in 0..65535.         *)
(***************************************************************************)
EXTENDS Integers, Sequences, FiniteSets, TLC

---------------------------------------------------------------------------
(* String primitives of the JavaScript runtime used by ipUtils.js *)

DigitChars == <<"0", "1", "2", "3", "4", "5", "6", "7", "8", "9">>

IsDigit(c) == \E i \in 1..10 : DigitChars[i] = c

DigitValue(c) == (CHOOSE i \in 1..10 : DigitChars[i] = c) - 1

IsSpace(c) == c = " "

\* String.prototype.split('.')
RECURSIVE split(_)
split(s) ==
  IF \E i \in 1..Len(s) : s[i] = "."
  THEN LET i == CHOOSE k \in 1..Len(s) : s[k] = "." /\ \A j \in 1..(k-1) : s[j] # "."
       IN  <<SubSeq(s, 1, i - 1)>> \o split(SubSeq(s, i + 1, Len(s)))
  ELSE <<s>>

\* Array.prototype.join('.')
RECURSIVE join(_)
join(parts) ==
  IF Len(parts) = 0 THEN <<>>
  ELSE IF Len(parts) = 1 THEN parts[1]
  ELSE parts[1] \o <<".">> \o join(Tail(parts))

RECURSIVE trimStart(_)
trimStart(s) == IF Len(s) > 0 /\ IsSpace(s[1]) THEN trimStart(Tail(s)) ELSE s

RECURSIVE trimEnd(_)
trimEnd(s) ==
  IF Len(s) > 0 /\ IsSpace(s[Len(s)]) THEN trimEnd(SubSeq(s, 1, Len(s) - 1)) ELSE s

\* String.prototype.trim()
trim(s) == trimEnd(trimStart(s))

\* the value of the longest prefix of decimal digits of s, continuing acc
RECURSIVE digitsValue(_, _)
digitsValue(s, acc) ==
  IF Len(s) > 0 /\ IsDigit(s[1])
  THEN digitsValue(Tail(s), 10 * acc + DigitValue(s[1]))
  ELSE acc

\* parseInt(s, 10): leading white space is skipped, a sign is accepted, the
\* longest prefix of digits is read and what follows it is ignored; NaN (<<>>)
\* when no digit is read.
parseInt(s) ==
  LET t == trimStart(s)
      neg == Len(t) > 0 /\ t[1] = "-"
      u == IF Len(t) > 0 /\ t[1] \in {"-", "+"} THEN Tail(t) ELSE t
  IN  IF Len(u) > 0 /\ IsDigit(u[1])
      THEN <<IF neg THEN 0 - digitsValue(u, 0) ELSE digitsValue(u, 0)>>
      ELSE <<>>

isNaN(num) == num = <<>>

\* the digits of n >= 0 in the given radix, most significant first
RECURSIVE digitsOf(_, _)
digitsOf(n, radix) ==
  IF n < radix THEN <<DigitChars[n + 1]>>
  ELSE digitsOf(n \div radix, radix) \o <<DigitChars[(n % radix) + 1]>>

\* Number.prototype.toString(radix) of the result of a parseInt
toString(num, radix) ==
  IF isNaN(num) THEN <<"N", "a", "N">>
  ELSE IF num[1] < 0 THEN <<"-">> \o digitsOf(0 - num[1], radix)
  ELSE digitsOf(num[1], radix)

\* String.prototype.padStart(8, '0')
RECURSIVE padStart8(_)
padStart8(s) == IF Len(s) >= 8 THEN s ELSE padStart8(<<"0">> \o s)

---------------------------------------------------------------------------
(* ipUtils.js: the address codec *)

ipToBinaryOctet(octet) == padStart8(toString(parseInt(octet), 2))

ipToBinary(ip) ==
  LET parts == split(ip)
  IN  join([i \in 1..Len(parts) |-> ipToBinaryOctet(parts[i])])

normalizeOctet(octet) ==
  LET trimmed == trim(octet)
      num == parseInt(trimmed)
  IN  IF trimmed = <<>> THEN trimmed
      ELSE IF isNaN(num) THEN trimmed
      ELSE toString(num, 10)

normalizeIpAddress(ip) ==
  IF ip = <<>> THEN ip
  ELSE LET parts == split(ip)
       IN  IF Len(parts) # 4 THEN ip
           ELSE join([i \in 1..Len(parts) |-> normalizeOctet(parts[i])])

\* the error messages, as the pieces of their template strings
ErrRequired == <<"IP address is required">>
ErrFourOctets == <<"IP address must contain exactly 4 octets">>
ErrEmptyOctet(i) == <<"Octet ", i, " cannot be empty">>
ErrOctetRange(i) == <<"Octet ", i, " must be a number between 0 and 255">>

\* the check of the loop body for the octet at index i (1-based)
octetEmpty(parts, i) == trim(parts[i]) = <<>>

octetBad(parts, i) ==
  LET num == parseInt(trim(parts[i]))
  IN  isNaN(num) \/ num[1] < 0 \/ num[1] > 255

octetFails(parts, i) == octetEmpty(parts, i) \/ octetBad(parts, i)

\* (mutant) the range of every octet is checked before any octet is checked
\* for being empty
validateIpAddressRangeFirst(ip) ==
  IF ip = <<>> THEN [valid |-> FALSE, error |-> ErrRequired, normalizedIp |-> <<>>]
  ELSE
    LET normalizedIp == normalizeIpAddress(ip)
        parts == split(normalizedIp)
        ranged(k) == ~octetEmpty(parts, k) /\ octetBad(parts, k)
    IN  IF Len(parts) # 4
        THEN [valid |-> FALSE, error |-> ErrFourOctets, normalizedIp |-> <<>>]
        ELSE IF \E i \in 1..4 : ranged(i)
        THEN LET i == CHOOSE k \in 1..4 : ranged(k) /\ \A j \in 1..(k-1) : ~ranged(j)
             IN  [valid |-> FALSE, error |-> ErrOctetRange(i), normalizedIp |-> <<>>]
        ELSE IF \E i \in 1..4 : octetEmpty(parts, i)
        THEN LET i == CHOOSE k \in 1..4 :
                        octetEmpty(parts, k) /\ \A j \in 1..(k-1) : ~octetEmpty(parts, j)
             IN  [valid |-> FALSE, error |-> ErrEmptyOctet(i), normalizedIp |-> <<>>]
        ELSE [valid |-> TRUE, error |-> <<>>, normalizedIp |-> normalizedIp]

validateIpAddress(ip) ==
  IF ip = <<>> THEN [valid |-> FALSE, error |-> ErrRequired, normalizedIp |-> <<>>]
  ELSE
    LET normalizedIp == normalizeIpAddress(ip)
        parts == split(normalizedIp)
    IN  IF Len(parts) # 4
        THEN [valid |-> FALSE, error |-> ErrFourOctets, normalizedIp |-> <<>>]
        ELSE IF \E i \in 1..4 : octetFails(parts, i)
        THEN LET i == CHOOSE k \in 1..4 :
                        octetFails(parts, k) /\ \A j \in 1..(k-1) : ~octetFails(parts, j)
             IN  [valid |-> FALSE,
                  error |-> IF octetEmpty(parts, i) THEN ErrEmptyOctet(i)
                            ELSE ErrOctetRange(i),
                  normalizedIp |-> <<>>]
        ELSE [valid |-> TRUE, error |-> <<>>, normalizedIp |-> normalizedIp]

ErrMaskPattern == <<"Invalid subnet mask: must be contiguous 1s followed by 0s">>

\* strings.join('')
RECURSIVE concat(_)
concat(strings) ==
  IF strings = <<>> THEN <<>> ELSE Head(strings) \o concat(Tail(strings))

\* (mutant) the octets are rendered in binary without padStart
binaryDigitsUnpadded(subnetMask) ==
  LET parts == split(subnetMask)
  IN  concat([i \in 1..Len(parts) |-> toString(parseInt(parts[i]), 2)])

\* the string binary of validateSubnetMask: the octets of the mask as it was
\* passed (not normalized), each parsed and rendered as 8 binary digits
binaryDigits(subnetMask) ==
  LET parts == split(subnetMask)
  IN  concat([i \in 1..Len(parts) |-> padStart8(toString(parseInt(parts[i]), 2))])

validateSubnetMask(subnetMask) ==
  LET validation == validateIpAddress(subnetMask)
  IN  IF ~validation.valid THEN validation
      ELSE LET binary == binaryDigits(subnetMask)
           IN  IF \E i \in 1..Len(binary) :
                      binary[i] = "1" /\ \E j \in 1..(i - 1) : binary[j] = "0"
               THEN [valid |-> FALSE, error |-> ErrMaskPattern]
               ELSE [valid |-> TRUE]

---------------------------------------------------------------------------
(* 32-bit arithmetic of the JavaScript runtime on <<hi, lo>> pairs *)

Half == 65536

Norm(hi, lo) == <<hi + (lo \div Half), lo % Half>>

FromInt(n) == Norm(0, n)

\* ToInt32 and ToUint32 of ECMAScript: the value modulo 2^32, signed or not
ToInt32(w) == <<((w[1] + 32768) % Half) - 32768, w[2]>>

ToUint32(w) == <<w[1] % Half, w[2]>>

\* a + b on numbers (exact: no 32-bit wrap)
Plus(a, b) == Norm(a[1] + b[1], a[2] + b[2])

RECURSIVE BitAnd16(_, _)
BitAnd16(a, b) ==
  IF a = 0 \/ b = 0 THEN 0
  ELSE (a % 2) * (b % 2) + 2 * BitAnd16(a \div 2, b \div 2)

RECURSIVE BitOr16(_, _)
BitOr16(a, b) ==
  IF a = 0 THEN b
  ELSE IF b = 0 THEN a
  ELSE (IF a % 2 = 1 \/ b % 2 = 1 THEN 1 ELSE 0) + 2 * BitOr16(a \div 2, b \div 2)

\* a & b and a | b: both operands to int32, the result an int32
And32(a, b) ==
  ToInt32(<<BitAnd16(ToUint32(a)[1], ToUint32(b)[1]), BitAnd16(a[2], b[2])>>)

Or32(a, b) ==
  ToInt32(<<BitOr16(ToUint32(a)[1], ToUint32(b)[1]), BitOr16(a[2], b[2])>>)

\* ~a: the int32 -a - 1
Not32(a) == LET x == ToInt32(a) IN <<(0 - x[1]) - 1, (Half - 1) - x[2]>>

\* a << k: int32, for a shift count k in 0..31
ShiftLeft(a, k) ==
  LET u == ToUint32(a)
  IN  IF k >= 16
      THEN ToInt32(<<(u[2] * 2^(k - 16)) % Half, 0>>)
      ELSE ToInt32(<<(((u[1] * 2^k) % Half) + ((u[2] * 2^k) \div Half)) % Half,
                     (u[2] * 2^k) % Half>>)

\* a >>> k: uint32, for a shift count k in 0..31
ShiftRightU(a, k) ==
  LET u == ToUint32(a)
  IN  IF k >= 16
      THEN <<0, u[1] \div 2^(k - 16)>>
      ELSE <<u[1] \div 2^k, ((u[1] % 2^k) * 2^(16 - k)) + (u[2] \div 2^k)>>

---------------------------------------------------------------------------
(* ipUtils.js: the subnet evaluator *)

\* the number a parseInt yields (ipToInt is applied to four-octet addresses)
octetNumber(p) == FromInt(parseInt(p)[1])

ipToInt(ip) ==
  LET parts == split(ip)
  IN  Plus(Plus(Plus(ShiftLeft(octetNumber(parts[1]), 24),
                     ShiftLeft(octetNumber(parts[2]), 16)),
                ShiftLeft(octetNumber(parts[3]), 8)),
           octetNumber(parts[4]))

\* (mutant) the network address is compared as given, without the mask applied
isIpInNetworkAssumingAligned(ip, networkAddress, subnetMask) ==
  LET ipInt == ipToInt(ip)
      networkInt == ipToInt(networkAddress)
      maskInt == ipToInt(subnetMask)
  IN  And32(ipInt, maskInt) = ToInt32(networkInt)

isIpInNetwork(ip, networkAddress, subnetMask) ==
  LET ipInt == ipToInt(ip)
      networkInt == ipToInt(networkAddress)
      maskInt == ipToInt(subnetMask)
  IN  And32(ipInt, maskInt) = And32(networkInt, maskInt)

\* (mutant) the & 0xFF is left out
lowByteUnmasked(w) == ToUint32(w)[2]

\* x & 0xFF as the number it is (0..255)
lowByte(w) == And32(w, FromInt(255))[2]

intToIp(ipInt) ==
  join(<<toString(<<lowByte(ShiftRightU(ipInt, 24))>>, 10),
         toString(<<lowByte(ShiftRightU(ipInt, 16))>>, 10),
         toString(<<lowByte(ShiftRightU(ipInt, 8))>>, 10),
         toString(<<lowByte(ipInt)>>, 10)>>)

\* maskBinary.split('').filter(bit => bit === '1').length
countOnes(s) == Cardinality({i \in 1..Len(s) : s[i] = "1"})

\* (mutant) the first host is counted from the network address as given
explainNetworkMismatchFromGiven(ip, networkAddress, subnetMask) ==
  LET ipInt == ipToInt(ip)
      networkInt == ipToInt(networkAddress)
      maskInt == ipToInt(subnetMask)
      ipNetworkId == And32(ipInt, maskInt)
      expectedNetworkId == And32(networkInt, maskInt)
      maskBinary == ipToBinary(subnetMask)
      cidr == countOnes(maskBinary)
      hostBits == ShiftRightU(Not32(maskInt), 0)
      broadcastInt == Or32(expectedNetworkId, hostBits)
      broadcastAddress == intToIp(broadcastInt)
      firstHost == intToIp(Plus(networkInt, FromInt(1)))
      lastHost == intToIp(Plus(broadcastInt, FromInt(0 - 1)))
  IN  [kind |-> "explanation",
       ip |-> ip,
       networkAddress |-> networkAddress,
       cidr |-> cidr,
       subnetMask |-> subnetMask,
       networkId |-> intToIp(expectedNetworkId),
       ipNetworkId |-> intToIp(ipNetworkId),
       differs |-> ipNetworkId # expectedNetworkId,
       firstHost |-> firstHost,
       lastHost |-> lastHost,
       broadcast |-> broadcastAddress]

\* The explanation text, as the values its template interpolates.
explainNetworkMismatch(ip, networkAddress, subnetMask) ==
  LET ipInt == ipToInt(ip)
      networkInt == ipToInt(networkAddress)
      maskInt == ipToInt(subnetMask)
      ipNetworkId == And32(ipInt, maskInt)
      expectedNetworkId == And32(networkInt, maskInt)
      maskBinary == ipToBinary(subnetMask)
      cidr == countOnes(maskBinary)
      hostBits == ShiftRightU(Not32(maskInt), 0)
      broadcastInt == Or32(expectedNetworkId, hostBits)
      broadcastAddress == intToIp(broadcastInt)
      firstHost == intToIp(Plus(expectedNetworkId, FromInt(1)))
      lastHost == intToIp(Plus(broadcastInt, FromInt(0 - 1)))
  IN  [kind |-> "explanation",
       ip |-> ip,
       networkAddress |-> networkAddress,
       cidr |-> cidr,
       subnetMask |-> subnetMask,
       networkId |-> intToIp(expectedNetworkId),
       ipNetworkId |-> intToIp(ipNetworkId),
       differs |-> ipNetworkId # expectedNetworkId,
       firstHost |-> firstHost,
       lastHost |-> lastHost,
       broadcast |-> broadcastAddress]

---------------------------------------------------------------------------
(* ipUtils.js: the generators *)

\* the string of a decimal numeral written in the source
Str(n) == digitsOf(n, 10)

Dotted(a, b, c, d) == join(<<Str(a), Str(b), Str(c), Str(d)>>)

commonMasks ==
  << Dotted(255, 255, 255, 0),
     Dotted(255, 255, 0, 0),
     Dotted(255, 0, 0, 0),
     Dotted(255, 255, 255, 128),
     Dotted(255, 255, 255, 192),
     Dotted(255, 255, 255, 224),
     Dotted(255, 255, 254, 0),
     Dotted(255, 255, 252, 0) >>

\* A value of Math.random() is n / 256 for a numerator n in 0..255 (every octet
\* and every index of commonMasks is the floor of such a value scaled).
\* Math.floor(Math.random() * m) for the numerator n:
randomBelow(n, m) == (n * m) \div 256

generateRandomSubnetMask(n) == commonMasks[randomBelow(n, Len(commonMasks)) + 1]

\* (mutant) the fourth octet is drawn like the third instead of being 0
randomNetworkAddressFourDrawn(n1, n2, n3) ==
  join(<<Str(randomBelow(n1, 256)), Str(randomBelow(n2, 256)),
         Str(randomBelow(n3, 256)), Str(randomBelow(n3, 256))>>)

\* the array of initGame joined with dots
randomNetworkAddress(n1, n2, n3) ==
  join(<<Str(randomBelow(n1, 256)), Str(randomBelow(n2, 256)),
         Str(randomBelow(n3, 256)), Str(0)>>)

\* Math.floor(Math.random() * w) for the numerator n and a number w given as a
\* pair (w may be -1: the product is then negative and its floor is -1)
floorScaled(n, w) ==
  Norm((n * w[1]) \div 256, (((n * w[1]) % 256) * 256) + ((n * w[2]) \div 256))

\* (mutant) the random host part is scaled by hostBits, not by hostBits - 1
generateIpInNetworkFullSpan(networkAddress, subnetMask, n) ==
  LET networkInt == ipToInt(networkAddress)
      maskInt == ipToInt(subnetMask)
      networkPrefix == And32(networkInt, maskInt)
      hostBits == ShiftRightU(Not32(maskInt), 0)
      randomHost == Plus(floorScaled(n, hostBits), FromInt(1))
      ipInt == Or32(networkPrefix, randomHost)
  IN  join(<<toString(<<lowByte(ShiftRightU(ipInt, 24))>>, 10),
             toString(<<lowByte(ShiftRightU(ipInt, 16))>>, 10),
             toString(<<lowByte(ShiftRightU(ipInt, 8))>>, 10),
             toString(<<lowByte(ipInt)>>, 10)>>)

\* generateIpInNetwork, for the numerator n of the value Math.random() returns
generateIpInNetwork(networkAddress, subnetMask, n) ==
  LET networkInt == ipToInt(networkAddress)
      maskInt == ipToInt(subnetMask)
      networkPrefix == And32(networkInt, maskInt)
      hostBits == ShiftRightU(Not32(maskInt), 0)
      randomHost == Plus(floorScaled(n, Plus(hostBits, FromInt(0 - 1))), FromInt(1))
      ipInt == Or32(networkPrefix, randomHost)
  IN  join(<<toString(<<lowByte(ShiftRightU(ipInt, 24))>>, 10),
             toString(<<lowByte(ShiftRightU(ipInt, 16))>>, 10),
             toString(<<lowByte(ShiftRightU(ipInt, 8))>>, 10),
             toString(<<lowByte(ipInt)>>, 10)>>)

\* The runs of the random source the model draws from: the numerators of the
\* four values one call of initGame reads, the mask's first.
RandomRuns ==
  { <<0, 0, 0, 0>>,        \* 0.0.0.0   255.255.255.0
    <<128, 0, 0, 0>>,      \* 0.0.0.0   255.255.255.192
    <<64, 200, 1, 2>> }    \* 200.1.2.0 255.0.0.0

---------------------------------------------------------------------------
(* App.svelte: the game state *)

VARIABLES networkAddress, subnetMask, userInput, score, correctAnswers,
          totalAttempts, gameCompleted, submissions, currentResponse,
          errorMessage, waitingForContinue,
          op,   \* the handler the last step ran
          pre,  \* gameCompleted and waitingForContinue as that handler found them
          calc  \* the last call of a function of ipUtils.js made on its own:
                \* its name, its arguments and what it returned

game == <<networkAddress, subnetMask, userInput, score, correctAnswers,
          totalAttempts, gameCompleted, submissions, currentResponse,
          errorMessage, waitingForContinue>>

vars == <<game, op, pre, calc>>

\* null
Null == [null |-> TRUE]

\* no function of ipUtils.js has been called on its own
NoCall == [fn |-> "none"]

\* the number of correct answers that completes the game
Target == 5

\* the submissions made in one session of the model, and those of them that
\* are not correct answers
MaxAttempts == 6

MaxWrong == 1

\* what the user can type into the input field
TypedInputs ==
  { <<"9", "9", "9", ".", "1", ".", "1", ".", "1">>,
    <<"0", "0", "0", ".", "0", ".", " ", "0", ".", "7", "7">> }

PressedKeys == {"Enter", "a"}

initGame(nMask, n1, n2, n3) ==
  /\ subnetMask' = generateRandomSubnetMask(nMask)
  /\ networkAddress' = randomNetworkAddress(n1, n2, n3)
  /\ userInput' = <<>>
  /\ errorMessage' = <<>>
  /\ currentResponse' = Null
  /\ waitingForContinue' = FALSE

\* (mutant) the next question is generated whatever correctAnswers is
continueToNextQuestionUnguarded ==
  /\ \E r \in RandomRuns : initGame(r[1], r[2], r[3], r[4])
  /\ UNCHANGED <<score, correctAnswers, totalAttempts, gameCompleted, submissions>>

\* (mutant) the next question starts with an empty list of submissions
continueToNextQuestionClearing ==
  IF correctAnswers < Target
  THEN /\ \E r \in RandomRuns : initGame(r[1], r[2], r[3], r[4])
       /\ submissions' = <<>>
       /\ UNCHANGED <<score, correctAnswers, totalAttempts, gameCompleted>>
  ELSE UNCHANGED game

continueToNextQuestion ==
  IF correctAnswers < Target
  THEN /\ \E r \in RandomRuns : initGame(r[1], r[2], r[3], r[4])
       /\ UNCHANGED <<score, correctAnswers, totalAttempts, gameCompleted, submissions>>
  ELSE UNCHANGED game

\* (mutant) the response is built before score is incremented
generateResponseStale(isCorrect, message, userIp, scoreNow, attemptsNow) ==
  LET ipToUse == IF userIp # <<>> THEN userIp ELSE userInput
  IN  [providedIpAddress |-> ipToUse,
       providedSubnetMask |-> subnetMask,
       currentNetworkAddress |-> networkAddress,
       currentSubnetMask |-> subnetMask,
       isCorrect |-> isCorrect,
       currentScore |-> score,
       totalQuestionsAttempted |-> attemptsNow,
       message |-> message]

\* generateResponse, read after the assignments to score and totalAttempts that
\* precede its call
generateResponse(isCorrect, message, userIp, scoreNow, attemptsNow) ==
  LET ipToUse == IF userIp # <<>> THEN userIp ELSE userInput
  IN  [providedIpAddress |-> ipToUse,
       providedSubnetMask |-> subnetMask,
       currentNetworkAddress |-> networkAddress,
       currentSubnetMask |-> subnetMask,
       isCorrect |-> isCorrect,
       currentScore |-> scoreNow,
       totalQuestionsAttempted |-> attemptsNow,
       message |-> message]

\* (mutant) the attempt number is the index the entry gets in the array
withAttemptNumberFromIndex(response, n) == response @@ [attemptNumber |-> Len(submissions)]

\* { ...currentResponse, attemptNumber: totalAttempts }
withAttemptNumber(response, n) == response @@ [attemptNumber |-> n]

\* (mutant) the target counts as reached only once it is exceeded
reachedTargetStrict(n) == n > Target

\* correctAnswers >= 5
reachedTarget(n) == n >= Target

\* (mutant) gameCompleted is assigned the comparison with the target
completedAfterCorrectExact(n) == n = Target

\* gameCompleted after a correct answer that makes correctAnswers n
completedAfterCorrect(n) == IF reachedTarget(n) THEN TRUE ELSE gameCompleted

\* (mutant) score++ is missing
scoreAfterCorrectKept == score

\* score++
scoreAfterCorrect == score + 1

\* (mutant) the input is cleared on a validation failure as well
submitInvalidClearing(ipValidation) ==
  /\ totalAttempts' = totalAttempts + 1
  /\ errorMessage' = ipValidation.error
  /\ currentResponse' =
       generateResponse(FALSE, [kind |-> "Validation error", error |-> ipValidation.error],
                        <<>>, score, totalAttempts')
  /\ submissions' = Append(submissions, withAttemptNumber(currentResponse', totalAttempts'))
  /\ userInput' = <<>>
  /\ UNCHANGED <<networkAddress, subnetMask, score, correctAnswers,
                 gameCompleted, waitingForContinue>>

\* the branch of handleSubmit for an input that fails validation
submitInvalid(ipValidation) ==
  /\ totalAttempts' = totalAttempts + 1
  /\ errorMessage' = ipValidation.error
  /\ currentResponse' =
       generateResponse(FALSE, [kind |-> "Validation error", error |-> ipValidation.error],
                        <<>>, score, totalAttempts')
  /\ submissions' = Append(submissions, withAttemptNumber(currentResponse', totalAttempts'))
  /\ UNCHANGED <<networkAddress, subnetMask, userInput, score, correctAnswers,
                 gameCompleted, waitingForContinue>>

\* the branch of handleSubmit for an address of the network
submitCorrect(normalizedIp) ==
  /\ totalAttempts' = totalAttempts + 1
  /\ errorMessage' = <<>>
  /\ score' = scoreAfterCorrect
  /\ correctAnswers' = correctAnswers + 1
  /\ currentResponse' =
       generateResponse(TRUE,
                        [kind |-> "Correct", ip |-> normalizedIp,
                         networkAddress |-> networkAddress, subnetMask |-> subnetMask,
                         completed |-> reachedTarget(correctAnswers')],
                        normalizedIp, score', totalAttempts')
  /\ gameCompleted' = completedAfterCorrect(correctAnswers')
  /\ waitingForContinue' =
       (IF reachedTarget(correctAnswers') THEN waitingForContinue ELSE TRUE)
  /\ submissions' = Append(submissions, withAttemptNumber(currentResponse', totalAttempts'))
  /\ UNCHANGED <<networkAddress, subnetMask, userInput>>

\* (mutant) the input is kept after a wrong answer
submitIncorrectKeeping(normalizedIp) ==
  /\ totalAttempts' = totalAttempts + 1
  /\ errorMessage' = <<>>
  /\ currentResponse' =
       generateResponse(FALSE,
                        explainNetworkMismatch(normalizedIp, networkAddress, subnetMask),
                        normalizedIp, score, totalAttempts')
  /\ submissions' = Append(submissions, withAttemptNumber(currentResponse', totalAttempts'))
  /\ UNCHANGED <<networkAddress, subnetMask, userInput, score, correctAnswers,
                 gameCompleted, waitingForContinue>>

\* the branch of handleSubmit for a valid address outside the network
submitIncorrect(normalizedIp) ==
  /\ totalAttempts' = totalAttempts + 1
  /\ errorMessage' = <<>>
  /\ currentResponse' =
       generateResponse(FALSE,
                        explainNetworkMismatch(normalizedIp, networkAddress, subnetMask),
                        normalizedIp, score, totalAttempts')
  /\ submissions' = Append(submissions, withAttemptNumber(currentResponse', totalAttempts'))
  /\ userInput' = <<>>
  /\ UNCHANGED <<networkAddress, subnetMask, score, correctAnswers, gameCompleted,
                 waitingForContinue>>

handleSubmit ==
  LET ipValidation == validateIpAddress(userInput)
      normalizedIp == IF ipValidation.normalizedIp # <<>> THEN ipValidation.normalizedIp
                      ELSE userInput
  IN  IF ~ipValidation.valid THEN submitInvalid(ipValidation)
      ELSE IF isIpInNetwork(normalizedIp, networkAddress, subnetMask)
      THEN submitCorrect(normalizedIp)
      ELSE submitIncorrect(normalizedIp)

\* (mutant) totalAttempts is not reset
handleResetKeepingAttempts ==
  /\ score' = 0
  /\ correctAnswers' = 0
  /\ UNCHANGED totalAttempts
  /\ gameCompleted' = FALSE
  /\ submissions' = <<>>
  /\ \E r \in RandomRuns : initGame(r[1], r[2], r[3], r[4])

handleReset ==
  /\ score' = 0
  /\ correctAnswers' = 0
  /\ totalAttempts' = 0
  /\ gameCompleted' = FALSE
  /\ submissions' = <<>>
  /\ \E r \in RandomRuns : initGame(r[1], r[2], r[3], r[4])

handleKeyPress(key) ==
  IF key = "Enter" /\ ~gameCompleted THEN handleSubmit ELSE UNCHANGED game

\* bind:value={userInput}
bindValue(raw) ==
  /\ userInput' = raw
  /\ UNCHANGED <<networkAddress, subnetMask, score, correctAnswers, totalAttempts,
                 gameCompleted, submissions, currentResponse, errorMessage,
                 waitingForContinue>>

---------------------------------------------------------------------------
(* The handlers as the operations of the session, run in any order *)

Phase == [gameCompleted |-> gameCompleted, waitingForContinue |-> waitingForContinue]

Ran(name) == op' = name /\ pre' = Phase /\ UNCHANGED calc

Init ==
  /\ score = 0
  /\ correctAnswers = 0
  /\ totalAttempts = 0
  /\ gameCompleted = FALSE
  /\ submissions = <<>>
  /\ currentResponse = Null
  /\ errorMessage = <<>>
  /\ waitingForContinue = FALSE
  /\ userInput = <<>>
  /\ \E r \in RandomRuns :
       /\ subnetMask = generateRandomSubnetMask(r[1])
       /\ networkAddress = randomNetworkAddress(r[2], r[3], r[4])
  /\ op = "mount"
  /\ pre = [gameCompleted |-> FALSE, waitingForContinue |-> FALSE]
  /\ calc = NoCall

Input(raw) == bindValue(raw) /\ Ran("input")

\* the answer in the input field is a correct one
answersQuestion ==
  LET ipValidation == validateIpAddress(userInput)
  IN  ipValidation.valid /\ isIpInNetwork(ipValidation.normalizedIp, networkAddress, subnetMask)

\* the bounds of the model on the submissions of one session
mayAttempt ==
  /\ totalAttempts < MaxAttempts
  /\ answersQuestion \/ totalAttempts - correctAnswers < MaxWrong

Submit == mayAttempt /\ handleSubmit /\ Ran("submit")

KeyPress(key) ==
  /\ mayAttempt
  /\ handleKeyPress(key)
  /\ Ran(IF key = "Enter" THEN "keypress Enter" ELSE "keypress")

Continue == continueToNextQuestion /\ Ran("continue")

Reset == handleReset /\ Ran("reset")

Next ==
  \/ \E raw \in TypedInputs : Input(raw)
  \/ Submit
  \/ \E key \in PressedKeys : KeyPress(key)
  \/ Continue
  \/ Reset

Spec == Init /\ [][Next]_vars

---------------------------------------------------------------------------
(* The handlers as the rendered page lets its events reach them *)

\* {#if !gameCompleted}: the game view, else the final results
gameViewRendered == ~gameCompleted

\* (mutant) the input field is disabled only once the game is completed
inputEnabledWhileWaiting == gameViewRendered /\ ~gameCompleted

\* the input field: disabled={gameCompleted || waitingForContinue}
inputEnabled == gameViewRendered /\ ~(gameCompleted \/ waitingForContinue)

\* {#if waitingForContinue} the continue button {:else} the submit button,
\* disabled={gameCompleted || !userInput.trim()}
continueButtonEnabled == gameViewRendered /\ waitingForContinue

submitButtonEnabled ==
  /\ gameViewRendered
  /\ ~waitingForContinue
  /\ ~(gameCompleted \/ trim(userInput) = <<>>)

NextUI ==
  \/ \E raw \in TypedInputs : inputEnabled /\ Input(raw)
  \/ submitButtonEnabled /\ Submit
  \/ \E key \in PressedKeys : inputEnabled /\ KeyPress(key)
  \/ continueButtonEnabled /\ Continue
  \/ Reset

SpecUI == Init /\ [][NextUI]_vars

---------------------------------------------------------------------------
(* initGame over a wider range of the random source *)

\* numerators of the four values initGame reads: one for every entry of
\* commonMasks, and octets that the shorter masks do and do not cut
GeneratorRuns ==
  { <<nMask, n1, n2, n3>> : nMask \in {0, 32, 64, 96, 128, 160, 192, 224},
                            n1 \in {10, 200}, n2 \in {0, 1}, n3 \in {0, 1, 2, 4, 255} }

InitGen ==
  /\ score = 0
  /\ correctAnswers = 0
  /\ totalAttempts = 0
  /\ gameCompleted = FALSE
  /\ submissions = <<>>
  /\ currentResponse = Null
  /\ errorMessage = <<>>
  /\ waitingForContinue = FALSE
  /\ userInput = <<>>
  /\ \E r \in GeneratorRuns :
       /\ subnetMask = generateRandomSubnetMask(r[1])
       /\ networkAddress = randomNetworkAddress(r[2], r[3], r[4])
  /\ op = "mount"
  /\ pre = [gameCompleted |-> FALSE, waitingForContinue |-> FALSE]
  /\ calc = NoCall

\* initGame as handleReset and continueToNextQuestion call it on a session
\* without submissions
Regenerate ==
  /\ \E r \in GeneratorRuns : initGame(r[1], r[2], r[3], r[4])
  /\ UNCHANGED <<score, correctAnswers, totalAttempts, gameCompleted, submissions>>
  /\ Ran("initGame")

SpecGen == InitGen /\ [][Regenerate]_vars

---------------------------------------------------------------------------
(* ipUtils.js: its functions called on their own *)

\* The functions of ipUtils.js read no state of the game and keep none between
\* calls: each is called once, in one state of the session, which stands for
\* all.
InitPure == Init /\ subnetMask = commonMasks[1]

\* the dotted text of an address given as its four octets
Text(t) == Dotted(t[1], t[2], t[3], t[4])

\* the same address as a user may type it: every octet with three digits
ZeroPadded(t) ==
  join([i \in 1..4 |-> (IF t[i] < 10 THEN <<"0", "0">>
                         ELSE IF t[i] < 100 THEN <<"0">> ELSE <<>>) \o Str(t[i])])

\* the addresses and network addresses the evaluator is called with: first
\* octets below and above 128, and the two ends of the address space
EvalAddresses ==
  { <<a, b, c, d>> : a \in {10, 200}, b \in {0, 7}, c \in {0, 1}, d \in {0, 5, 255} }
    \cup { <<0, 0, 0, 0>>, <<255, 255, 255, 255>> }

\* the masks of commonMasks, and /0, /1, /30, /31 and /32
ContiguousMasks ==
  { <<255, 255, 255, 0>>, <<255, 255, 0, 0>>, <<255, 0, 0, 0>>, <<255, 255, 255, 128>>,
    <<255, 255, 255, 192>>, <<255, 255, 255, 224>>, <<255, 255, 254, 0>>,
    <<255, 255, 252, 0>>, <<0, 0, 0, 0>>, <<128, 0, 0, 0>>, <<255, 255, 255, 252>>,
    <<255, 255, 255, 254>>, <<255, 255, 255, 255>> }

EvalMasks == ContiguousMasks \cup { <<255, 0, 255, 0>> }

CallIsIpInNetwork(a, n, m) ==
  /\ calc = NoCall
  /\ calc' = [fn |-> "isIpInNetwork", a |-> a, n |-> n, m |-> m,
              result |-> isIpInNetwork(Text(a), Text(n), Text(m))]
  /\ UNCHANGED <<game, op, pre>>

CallExplainNetworkMismatch(a, n, m) ==
  /\ calc = NoCall
  /\ calc' = [fn |-> "explainNetworkMismatch", a |-> a, n |-> n, m |-> m,
              result |-> explainNetworkMismatch(Text(a), Text(n), Text(m))]
  /\ UNCHANGED <<game, op, pre>>

NextEval ==
  \E a \in EvalAddresses, n \in EvalAddresses, m \in EvalMasks :
    \/ CallIsIpInNetwork(a, n, m)
    \/ CallExplainNetworkMismatch(a, n, m)

SpecEval == InitPure /\ [][NextEval]_vars

\* numerators of the values of Math.random(): the least, the greatest, and some
\* between
HostNumerators == {0, 1, 128, 255}

CallGenerateIpInNetwork(n, m, r) ==
  /\ calc = NoCall
  /\ calc' = [fn |-> "generateIpInNetwork", n |-> n, m |-> m, r |-> r,
              result |-> generateIpInNetwork(Text(n), Text(m), r)]
  /\ UNCHANGED <<game, op, pre>>

NextHost ==
  \E n \in EvalAddresses, m \in ContiguousMasks, r \in HostNumerators :
    CallGenerateIpInNetwork(n, m, r)

SpecHost == InitPure /\ [][NextHost]_vars

CodecAddresses ==
  { <<a, b, c, d>> : a \in {0, 1, 127, 128, 255}, b \in {0, 1, 127, 128, 255},
                     c \in {0, 1, 127, 128, 255}, d \in {0, 1, 127, 128, 255} }

CallIpToInt(a) ==
  /\ calc = NoCall
  /\ calc' = [fn |-> "ipToInt", ip |-> Text(a), result |-> ipToInt(Text(a))]
  /\ UNCHANGED <<game, op, pre>>

\* intToIp called with the number the last call of ipToInt returned
CallIntToIp ==
  /\ calc.fn = "ipToInt"
  /\ calc' = [fn |-> "intToIp", ip |-> calc.ip, ipInt |-> calc.result,
              result |-> intToIp(calc.result)]
  /\ UNCHANGED <<game, op, pre>>

NextCodec ==
  \/ \E a \in CodecAddresses : CallIpToInt(a)
  \/ CallIntToIp

SpecCodec == InitPure /\ [][NextCodec]_vars

MaskOctets == {0, 1, 128, 192, 254, 255}

MaskTuples == { <<a, b, c, d>> : a \in MaskOctets, b \in MaskOctets,
                                 c \in MaskOctets, d \in MaskOctets }

\* validateSubnetMask called with the text of the mask m, canonical or with
\* every octet written in three digits
CallValidateSubnetMask(m, padded) ==
  /\ calc = NoCall
  /\ calc' = LET text == IF padded THEN ZeroPadded(m) ELSE Text(m)
             IN  [fn |-> "validateSubnetMask", m |-> m, text |-> text,
                  result |-> validateSubnetMask(text)]
  /\ UNCHANGED <<game, op, pre>>

NextMask == \E m \in MaskTuples, padded \in BOOLEAN : CallValidateSubnetMask(m, padded)

SpecMask == InitPure /\ [][NextMask]_vars

\* segments of a raw input: empty, blank, valid (one of them with a space and a
\* leading zero), above 255, not a number, negative
RawSegments ==
  { <<>>, <<" ">>, <<"7">>, <<" ", "0", "7">>, <<"2", "5", "6">>, <<"x">>, <<"-", "1">> }

\* raw inputs of four segments
RawOfFour == { join(<<s1, s2, s3, s4>>) : s1 \in RawSegments, s2 \in RawSegments,
                                          s3 \in RawSegments, s4 \in RawSegments }

\* raw inputs of one, two, three and five segments, the empty input among them
RawOfOthers ==
  LET few == { <<>>, <<"7">>, <<"x">> }
  IN  { join(<<s1>>) : s1 \in few }
        \cup { join(<<s1, s2>>) : s1 \in few, s2 \in few }
        \cup { join(<<s1, s2, s3>>) : s1 \in few, s2 \in few, s3 \in few }
        \cup { join(<<s1, s2, s3, s1, s2>>) : s1 \in few, s2 \in few, s3 \in few }

CallValidateIpAddress(raw) ==
  /\ calc = NoCall
  /\ calc' = [fn |-> "validateIpAddress", raw |-> raw, result |-> validateIpAddress(raw)]
  /\ UNCHANGED <<game, op, pre>>

NextParse == \E raw \in RawOfFour \cup RawOfOthers : CallValidateIpAddress(raw)

SpecParse == InitPure /\ [][NextParse]_vars

---------------------------------------------------------------------------
(* Vocabulary of the properties *)

\* this step ran handleSubmit: the submit handler itself, or Enter in the input
\* field, which handleKeyPress passes on while the game is not completed
SubmitRan == op' = "submit" \/ (op' = "keypress Enter" /\ ~gameCompleted)

Last(h) == h[Len(h)]

\* the Submissions among the first n of the history that are correct
CorrectUpTo(h, n) == Cardinality({i \in 1..n : h[i].isCorrect})

\* the NetworkSpecs initGame can put in effect
GeneratedSpecs ==
  { <<randomNetworkAddress(r[2], r[3], r[4]), generateRandomSubnetMask(r[1])>> :
      r \in RandomRuns }

\* the bits of an octet that are 1 (bit 0 the lowest), and the octet of a set of
\* bits
BitsOf(x) == {k \in 0..7 : (x \div 2^k) % 2 = 1}

ByteOf(S) ==
  LET f[k \in 0..8] == IF k = 8 THEN 0 ELSE (IF k \in S THEN 2^k ELSE 0) + f[k + 1]
  IN  f[0]

\* a AND m, and a OR (NOT m), of 32-bit values given as their four octets
AndOctets(a, m) == [i \in 1..4 |-> ByteOf(BitsOf(a[i]) \cap BitsOf(m[i]))]

OrNotOctets(a, m) == [i \in 1..4 |-> ByteOf(BitsOf(a[i]) \cup ((0..7) \ BitsOf(m[i])))]

\* t + 1 and t - 1 modulo 2^32
Succ32(t) ==
  IF t[4] < 255 THEN <<t[1], t[2], t[3], t[4] + 1>>
  ELSE IF t[3] < 255 THEN <<t[1], t[2], t[3] + 1, 0>>
  ELSE IF t[2] < 255 THEN <<t[1], t[2] + 1, 0, 0>>
  ELSE IF t[1] < 255 THEN <<t[1] + 1, 0, 0, 0>>
  ELSE <<0, 0, 0, 0>>

Pred32(t) ==
  IF t[4] > 0 THEN <<t[1], t[2], t[3], t[4] - 1>>
  ELSE IF t[3] > 0 THEN <<t[1], t[2], t[3] - 1, 255>>
  ELSE IF t[2] > 0 THEN <<t[1], t[2] - 1, 255, 255>>
  ELSE IF t[1] > 0 THEN <<t[1] - 1, 255, 255, 255>>
  ELSE <<255, 255, 255, 255>>

\* bit p of the 32-bit value, bit 0 the highest
BitAt(m, p) == (m[(p \div 8) + 1] \div 2^(7 - (p % 8))) % 2

\* no 1-bit follows a 0-bit
OnesThenZeros(m) ==
  ~\E p \in 0..31, q \in 0..31 : p < q /\ BitAt(m, p) = 0 /\ BitAt(m, q) = 1

PrefixLength(m) == Cardinality({p \in 0..31 : BitAt(m, p) = 1})

\* the octets of a dotted text of four numerals
Octets(ip) == [i \in 1..4 |-> parseInt(split(ip)[i])[1]]

\* the network address is its own network ID under the mask
Aligned(n, m) == AndOctets(n, m) = n

\* the session as it is at the start of a game
Fresh ==
  /\ score = 0
  /\ correctAnswers = 0
  /\ totalAttempts = 0
  /\ submissions = <<>>
  /\ ~gameCompleted
  /\ ~waitingForContinue
  /\ userInput = <<>>
  /\ <<networkAddress, subnetMask>> \in GeneratedSpecs

---------------------------------------------------------------------------
(* C1..C10: the session *)

\* C1 (as claimed): once the game is completed, a step that submits (the submit
\* handler, or Enter in the input field) leaves totalAttempts, score,
\* correctAnswers, gameCompleted and the submissions unchanged.
C1_SubmitAfterCompletedIsNoOp ==
  [][(gameCompleted /\ op' \in {"submit", "keypress Enter"})
       => UNCHANGED <<totalAttempts, score, correctAnswers, gameCompleted, submissions>>]_vars

\* C2 (as claimed): continueToNextQuestion run while the session is not waiting
\* for continue changes neither the network address, the mask, the input, the
\* counters nor the submissions.
C2_ContinueOutOfTurnIsNoOp ==
  [][(op' = "continue" /\ ~waitingForContinue)
       => UNCHANGED <<networkAddress, subnetMask, userInput, score, correctAnswers,
                      totalAttempts, submissions>>]_vars

\* C3: in every reachable state gameCompleted is true exactly when correctAnswers
\* has reached the target of 5.
C3_CompletedIffTarget == gameCompleted <=> correctAnswers >= Target

\* a submit has just produced the fifth correct answer
C3_Witness ==
  /\ op = "submit"
  /\ ~pre.gameCompleted
  /\ correctAnswers = Target
  /\ gameCompleted

\* C4: once gameCompleted is true, every step other than a reset leaves it true.
C4_CompletedUntilReset == [][(gameCompleted /\ op' # "reset") => gameCompleted']_vars

\* a submit has run in a completed game and the game is still completed
C4_Witness ==
  /\ op = "submit"
  /\ pre.gameCompleted
  /\ gameCompleted
  /\ totalAttempts > Target

\* C5: a submit of an input that fails validation adds 1 to totalAttempts, appends
\* one Submission that is not correct and carries the validation error, and
\* leaves score, correctAnswers, gameCompleted, the network address, the mask,
\* the input and waitingForContinue as they were (a session awaiting input is
\* still awaiting input).
C5_InvalidSubmit ==
  [][(SubmitRan /\ ~validateIpAddress(userInput).valid)
       => /\ totalAttempts' = totalAttempts + 1
          /\ Len(submissions') = Len(submissions) + 1
          /\ SubSeq(submissions', 1, Len(submissions)) = submissions
          /\ ~Last(submissions').isCorrect
          /\ Last(submissions').message =
                [kind |-> "Validation error", error |-> validateIpAddress(userInput).error]
          /\ UNCHANGED <<score, correctAnswers, gameCompleted, networkAddress,
                         subnetMask, userInput, waitingForContinue>>]_vars

\* 999.1.1.1 has just been submitted in a session awaiting input
C5_Witness ==
  /\ op = "submit"
  /\ ~pre.gameCompleted /\ ~pre.waitingForContinue
  /\ ~gameCompleted /\ ~waitingForContinue
  /\ userInput = <<"9", "9", "9", ".", "1", ".", "1", ".", "1">>
  /\ Len(submissions) > 0
  /\ Last(submissions).message = [kind |-> "Validation error", error |-> ErrOctetRange(1)]
  /\ totalAttempts = Len(submissions)

\* C6: a submit of a valid address outside the current network leaves the network
\* address, the mask, score, correctAnswers, gameCompleted and waitingForContinue
\* as they were, adds 1 to totalAttempts, appends one Submission that is not
\* correct and clears the input.
C6_IncorrectSubmit ==
  [][(/\ SubmitRan
      /\ validateIpAddress(userInput).valid
      /\ ~isIpInNetwork(validateIpAddress(userInput).normalizedIp, networkAddress,
                        subnetMask))
       => /\ totalAttempts' = totalAttempts + 1
          /\ Len(submissions') = Len(submissions) + 1
          /\ SubSeq(submissions', 1, Len(submissions)) = submissions
          /\ ~Last(submissions').isCorrect
          /\ Last(submissions').message.kind = "explanation"
          /\ userInput' = <<>>
          /\ UNCHANGED <<networkAddress, subnetMask, score, correctAnswers,
                         gameCompleted, waitingForContinue>>]_vars

\* a valid address outside the network has just been submitted in a session
\* awaiting input, after one correct answer
C6_Witness ==
  /\ op = "submit"
  /\ ~pre.gameCompleted /\ ~pre.waitingForContinue
  /\ ~gameCompleted /\ ~waitingForContinue
  /\ userInput = <<>>
  /\ score = 1
  /\ Len(submissions) = 2
  /\ Last(submissions).message.kind = "explanation"
  /\ Last(submissions).currentNetworkAddress = networkAddress

\* C7: in every reachable state score equals correctAnswers and both equal the
\* number of correct Submissions in the history.
C7_ScoreCountsCorrect ==
  /\ score = correctAnswers
  /\ score = CorrectUpTo(submissions, Len(submissions))

\* a history of three Submissions, two of them correct and one not
C7_Witness ==
  /\ score = 2
  /\ Len(submissions) = 3
  /\ \E i \in 1..3 : ~submissions[i].isCorrect

\* C8: in every reachable state the i-th Submission carries attempt number i and
\* the history is as long as totalAttempts.
C8_AttemptNumbers ==
  /\ Len(submissions) = totalAttempts
  /\ \A i \in 1..Len(submissions) : submissions[i].attemptNumber = i

\* a history that holds an invalid Submission followed by a valid one
C8_Witness ==
  /\ Len(submissions) >= 2
  /\ \E i \in 1..(Len(submissions) - 1) :
       /\ submissions[i].message.kind = "Validation error"
       /\ submissions[i + 1].isCorrect

\* C9: every Submission records the score after its attempt: the number of correct
\* Submissions up to and including itself.
C9_ScoreAtAttempt ==
  \A i \in 1..Len(submissions) : submissions[i].currentScore = CorrectUpTo(submissions, i)

\* a history whose second correct Submission follows one that is not correct
C9_Witness ==
  \E i \in 2..Len(submissions) :
    /\ submissions[i].isCorrect
    /\ submissions[i].currentScore = 2
    /\ ~submissions[i - 1].isCorrect

\* C10: reset can run in every state, and every reset yields a fresh session: the
\* counters 0, no submissions, not completed, not waiting for continue, the
\* input empty and a generated NetworkSpec in effect.
C10_ResetYieldsFresh ==
  /\ [](ENABLED Reset)
  /\ [][op' = "reset" => Fresh']_vars

\* a reset has just run in a completed game
C10_Witness ==
  /\ op = "reset"
  /\ pre.gameCompleted
  /\ Fresh

---------------------------------------------------------------------------
(* C11, C20: the session, continued *)

\* C11: continueToNextQuestion run while the session waits for continue and
\* correctAnswers is below 5 puts a generated NetworkSpec in effect and returns
\* the session to awaiting input (not waiting for continue, not completed, the
\* input empty), leaving score, correctAnswers, totalAttempts and the
\* submissions unchanged; run when correctAnswers is already 5 or more it
\* changes nothing of the game state.
C11_ContinueGeneratesNext ==
  [][op' = "continue"
       => IF correctAnswers >= Target
          THEN UNCHANGED game
          ELSE waitingForContinue
                 => /\ <<networkAddress', subnetMask'>> \in GeneratedSpecs
                    /\ ~waitingForContinue'
                    /\ ~gameCompleted'
                    /\ userInput' = <<>>
                    /\ UNCHANGED <<score, correctAnswers, totalAttempts, submissions>>]_vars

\* continue has just run in a session that waited for it after its second
\* correct answer
C11_Witness ==
  /\ op = "continue"
  /\ pre.waitingForContinue
  /\ ~pre.gameCompleted
  /\ ~waitingForContinue
  /\ score = 2
  /\ Len(submissions) >= 2
  /\ Last(submissions).isCorrect

\* C20: every step other than a reset keeps the submissions made so far, in
\* their order and unaltered, as the beginning of the list of submissions.
C20_HistoryAppendOnly ==
  [][op' # "reset"
       => /\ Len(submissions') >= Len(submissions)
          /\ SubSeq(submissions', 1, Len(submissions)) = submissions]_vars

\* continue has just run over a history of three submissions
C20_Witness ==
  /\ op = "continue"
  /\ pre.waitingForContinue
  /\ Len(submissions) = 3
  /\ \E i \in 1..3 : ~submissions[i].isCorrect

---------------------------------------------------------------------------
(* C12: the generator *)

\* C12 (as claimed): in every state the network address in effect is aligned to
\* the mask in effect: the address AND the mask equals the address.
C12_GeneratedAligned == Aligned(Octets(networkAddress), Octets(subnetMask))

\* C12 (amended): the fourth octet of the network address in effect is 0, and
\* the address is aligned to the mask in effect whenever the mask has a prefix
\* of 24 bits or more.
C12_AlignedFromSlash24 ==
  /\ Octets(networkAddress)[4] = 0
  /\ PrefixLength(Octets(subnetMask)) >= 24
       => Aligned(Octets(networkAddress), Octets(subnetMask))

\* initGame has just drawn 255.255.255.224 and a network address with an odd
\* third octet
C12_Witness ==
  /\ op = "initGame"
  /\ Octets(subnetMask) = <<255, 255, 255, 224>>
  /\ Octets(networkAddress) = <<200, 1, 255, 0>>

---------------------------------------------------------------------------
(* C13..C19: the functions of ipUtils.js *)

\* C13: isIpInNetwork returns true exactly when the address AND the mask equals
\* the network address AND the mask, as 32-bit values, whatever the first octets
\* are and whether or not the network address is aligned; and it returns the
\* same for the network address and for the network address AND the mask.
C13_MembershipByMaskedEquality ==
  calc.fn = "isIpInNetwork"
    => /\ calc.result = (AndOctets(calc.a, calc.m) = AndOctets(calc.n, calc.m))
       /\ calc.result = isIpInNetwork(Text(calc.a), Text(AndOctets(calc.n, calc.m)),
                                      Text(calc.m))

\* an address with first octet 200 has just been judged in the network of a
\* network address that is not aligned to the mask
C13_Witness ==
  /\ calc.fn = "isIpInNetwork"
  /\ calc.a[1] >= 128
  /\ calc.a # calc.n
  /\ ~Aligned(calc.n, calc.m)
  /\ calc.result

\* C14: for a contiguous mask, explainNetworkMismatch reports the network ID as
\* network AND mask, the network ID of the address as address AND mask, the
\* broadcast address as network ID OR (NOT mask), the first host as network ID
\* + 1 and the last host as broadcast - 1, each modulo 2^32.
C14_ExplanationFields ==
  (calc.fn = "explainNetworkMismatch" /\ OnesThenZeros(calc.m))
    => LET networkID == AndOctets(calc.n, calc.m)
           broadcast == OrNotOctets(networkID, calc.m)
       IN  /\ calc.result.networkId = Text(networkID)
           /\ calc.result.ipNetworkId = Text(AndOctets(calc.a, calc.m))
           /\ calc.result.broadcast = Text(broadcast)
           /\ calc.result.firstHost = Text(Succ32(networkID))
           /\ calc.result.lastHost = Text(Pred32(broadcast))

\* the mismatch of 10.0.1.5 with 10.0.0.0 under 255.255.255.0 has just been
\* explained
C14_Witness ==
  /\ calc.fn = "explainNetworkMismatch"
  /\ calc.a = <<10, 0, 1, 5>>
  /\ calc.n = <<10, 0, 0, 0>>
  /\ calc.m = <<255, 255, 255, 0>>
  /\ calc.result.networkId = <<"1", "0", ".", "0", ".", "0", ".", "0">>
  /\ calc.result.ipNetworkId = <<"1", "0", ".", "0", ".", "1", ".", "0">>
  /\ calc.result.broadcast = <<"1", "0", ".", "0", ".", "0", ".", "2", "5", "5">>
  /\ calc.result.firstHost = <<"1", "0", ".", "0", ".", "0", ".", "1">>
  /\ calc.result.lastHost = <<"1", "0", ".", "0", ".", "0", ".", "2", "5", "4">>

\* C15 (as claimed): for a mask of 31 or 32 one-bits generateIpInNetwork returns
\* the network ID, network AND mask, whatever the random source returns.
C15_NetworkIdWhenNoHost ==
  (calc.fn = "generateIpInNetwork" /\ PrefixLength(calc.m) >= 31)
    => calc.result = Text(AndOctets(calc.n, calc.m))

\* C16: intToIp applied to what ipToInt returns for an address of four octets
\* in 0..255 returns that address, the first octet being below 128 or not.
C16_RoundTrip == calc.fn = "intToIp" => calc.result = calc.ip

\* 128.0.1.255 has just been restored from a number with its top bit set
C16_Witness ==
  /\ calc.fn = "intToIp"
  /\ calc.ip = <<"1", "2", "8", ".", "0", ".", "1", ".", "2", "5", "5">>
  /\ calc.ipInt[1] < 0
  /\ calc.result = calc.ip

\* C17: for the text of a valid address validateSubnetMask succeeds exactly when
\* no 1-bit follows a 0-bit in the 32 bits of the address, and otherwise fails
\* with the error of the non-contiguous mask.
C17_MaskValidation ==
  calc.fn = "validateSubnetMask"
    => /\ calc.result.valid <=> OnesThenZeros(calc.m)
       /\ ~calc.result.valid => calc.result.error = ErrMaskPattern

\* 255.0.255.0 has just been rejected
C17_Witness ==
  /\ calc.fn = "validateSubnetMask"
  /\ calc.text = <<"2", "5", "5", ".", "0", ".", "2", "5", "5", ".", "0">>
  /\ ~calc.result.valid
  /\ calc.result.error =
       <<"Invalid subnet mask: must be contiguous 1s followed by 0s">>

\* a segment of a raw input that is blank, and one that fails the checks of
\* validateIpAddress: blank, or not a number from 0 to 255 as parseInt reads it
Blank(seg) == \A k \in 1..Len(seg) : IsSpace(seg[k])

SegmentFails(seg) ==
  \/ Blank(seg)
  \/ LET num == parseInt(seg) IN isNaN(num) \/ num[1] < 0 \/ num[1] > 255

\* what C18 says of a raw input of four segments: the error is that of the
\* failing segment of lowest index
FirstFailingReported(raw, result) ==
  LET segs == split(raw)
  IN  \A i \in 1..4 :
        (SegmentFails(segs[i]) /\ \A j \in 1..(i - 1) : ~SegmentFails(segs[j]))
          => /\ ~result.valid
             /\ result.error = IF Blank(segs[i]) THEN ErrEmptyOctet(i)
                                ELSE ErrOctetRange(i)

C19_HostStrictlyInside ==
  (calc.fn = "generateIpInNetwork" /\ PrefixLength(calc.m) <= 30)
    => LET networkID == AndOctets(calc.n, calc.m)
           broadcast == OrNotOctets(networkID, calc.m)
       IN  /\ isIpInNetwork(calc.result, Text(calc.n), Text(calc.m))
           /\ calc.result # Text(networkID)
           /\ calc.result # Text(broadcast)

\* the greatest value of the random source has just been used for a network
\* of four addresses, around a network address that is not aligned
C19_Witness ==
  /\ calc.fn = "generateIpInNetwork"
  /\ calc.n = <<200, 7, 1, 5>>
  /\ calc.m = <<255, 255, 255, 252>>
  /\ calc.r = 255
  /\ calc.result = <<"2", "0", "0", ".", "7", ".", "1", ".", "6">>

---------------------------------------------------------------------------
(* C21, C22: the session between a correct answer and continue *)

\* C21: on the page, while the session waits for continue the only handlers
\* that run are continue and reset: no submit runs, so totalAttempts, score,
\* correctAnswers and the submissions stay as they are until continue has put
\* the next NetworkSpec in effect (or reset has started a new game), and score
\* and correctAnswers never increase in such a step.
C21_NoSubmitWhileWaiting ==
  [][waitingForContinue
       => /\ op' \in {"continue", "reset"}
          /\ score' <= score
          /\ correctAnswers' <= correctAnswers
          /\ op' = "continue"
               => UNCHANGED <<score, correctAnswers, totalAttempts, submissions>>]_vars

\* the session waits for continue after its second correct answer, and the
\* input field still holds that answer
C21_Witness ==
  /\ waitingForContinue
  /\ op \in {"submit", "keypress Enter"}
  /\ ~pre.waitingForContinue
  /\ score = 2
  /\ Last(submissions).isCorrect
  /\ answersQuestion

\* C22 (as claimed): in every reachable state waitingForContinue and
\* gameCompleted are not both true.
C22_NotBothWaitingAndCompleted == ~(waitingForContinue /\ gameCompleted)

====
